---- MODULE Spec2Model ----
(***************************************************************************)
(* krnlstring: OwnedUnicodeString, a UNICODE_STRING descriptor (Length,    *)
(* MaximumLength, Buffer) that owns its UTF-16 buffer (a Vec<u16>).        *)
(*                                                                         *)
(* The state is one container `owned_unicode` under a sequence of the      *)
(* crate's operations; the right operands of `+` and `==` are containers   *)
(* built by the same constructors (and optionally terminated by a pointer  *)
(* extraction) inside the step that uses them.                             *)
(***************************************************************************)
EXTENDS Integers, Sequences, FiniteSets

VARIABLES
    owned_unicode,    \* the container: [buffer, ptr, Length, MaximumLength, Buffer]
    alive,            \* TRUE while owned_unicode is a constructed, not yet dropped value
    out               \* the last operation and what it returned to the caller

vars == <<owned_unicode, alive, out>>

(***************************** bounds **************************************)
MaxLen == 3        \* longest buffer the growing operations may produce
MaxOtherLen == 1   \* longest unit vector a right operand is built from
MaxText == 2       \* longest text (in scalar values) given to From<&str> / Add<&str>

(***************************** constants ***********************************)
SizeOfU16 == 2             \* size_of::<u16>()
REPLACEMENT == 65533       \* U+FFFD, written by fmt for an ill-formed unit

Wrap16(n) == n % 65536     \* the `as u16` cast, and u16 arithmetic when it wraps

\* code units of the model: NUL, 'A', a high surrogate (0xD83D), a low surrogate (0xDE00)
Units == {0, 65, 55357, 56832}
\* scalar values of the model's texts: U+0000, 'A', U+1F600
Scalars == {0, 65, 128512}

SeqsUpTo(S, n) == UNION {[1..k -> S] : k \in 0..n}

\* storage addresses. Pointers are only ever compared with the Buffer a container
\* took at construction, so two addresses tell all there is: the one the Vec had
\* when the container was built, and any other one
FirstAlloc == 0
AllocIds == {FirstAlloc, FirstAlloc + 1}

\* build profiles: with overflow checks (debug) an overflowing u16 operation panics,
\* without them (release) it wraps
OverflowChecks == BOOLEAN

\* buffers beyond the 16-bit byte range: 32767, 32768 and 32769 units
TopLen == (65536 \div SizeOfU16) - 1
BigVecs ==
    { [i \in 1..TopLen |-> 65],
      [i \in 1..(TopLen + 1) |-> 65],
      [i \in 1..(TopLen + 2) |-> IF i > TopLen THEN 0 ELSE 65] }

(***************************** OwnedUnicodeString **************************)
is_null_terminated(s) ==
    Len(s.buffer) > 0 /\ s.buffer[Len(s.buffer)] = 0

\* the loop of compute_size: zero units counted from the end until a non-zero one
RECURSIVE TrailingZeros(_, _)
TrailingZeros(buf, n) ==
    IF n = 0 \/ buf[n] # 0 THEN 0 ELSE 1 + TrailingZeros(buf, n - 1)

maximum_length(s) == Wrap16(Len(s.buffer) * SizeOfU16)

count(s) ==
    IF is_null_terminated(s) THEN TrailingZeros(s.buffer, Len(s.buffer)) ELSE 0

\* `maximum_length - (count * 2) as u16` overflows u16 subtraction
compute_size_overflows(s) ==
    maximum_length(s) < Wrap16(count(s) * SizeOfU16)

\* compute_size without the scan for trailing zero units
compute_size_no_scan(s) ==
    [s EXCEPT !.Length = maximum_length(s), !.MaximumLength = maximum_length(s)]

compute_size(s) ==
    [s EXCEPT !.Length = Wrap16(maximum_length(s) + 65536 - Wrap16(count(s) * SizeOfU16)),
              !.MaximumLength = maximum_length(s)]

\* `MaximumLength += 2` overflows u16 addition
ensure_overflows(s) ==
    ~is_null_terminated(s) /\ s.MaximumLength + SizeOfU16 > 65535

\* p: where the Vec's storage is after the push (p = s.ptr when it did not move)
ensure_is_null_terminated(s, p) ==
    IF ~is_null_terminated(s)
    THEN [s EXCEPT !.buffer = Append(s.buffer, 0),
                   !.ptr = p,
                   !.MaximumLength = Wrap16(s.MaximumLength + SizeOfU16)]
    ELSE s

\* From<Vec<u16>>: Buffer is taken from the vector once, then the sizes are computed
from_vec(value) ==
    compute_size([buffer |-> value, ptr |-> FirstAlloc,
                  Length |-> 0, MaximumLength |-> 0, Buffer |-> FirstAlloc])

from_vec_overflows(value) ==
    compute_size_overflows([buffer |-> value, ptr |-> FirstAlloc,
                            Length |-> 0, MaximumLength |-> 0, Buffer |-> FirstAlloc])

\* str::encode_utf16
RECURSIVE encode_utf16(_)
encode_utf16(t) ==
    IF t = <<>> THEN <<>>
    ELSE LET c == Head(t)
         IN (IF c < 65536 THEN <<c>>
             ELSE <<55296 + ((c - 65536) \div 1024), 56320 + ((c - 65536) % 1024)>>)
            \o encode_utf16(Tail(t))

from_str(t) == from_vec(encode_utf16(t))

Texts == {t \in SeqsUpTo(Scalars, MaxText) : Len(encode_utf16(t)) <= MaxLen}

Unalive == from_vec(<<>>)

Init ==
    /\ owned_unicode = Unalive
    /\ alive = FALSE
    /\ out = [op |-> "none", val |-> <<>>, arg |-> <<>>]

\* a panic ends the run of the program: the container is dropped while unwinding
Panic(opname) ==
    /\ owned_unicode' = Unalive
    /\ alive' = FALSE
    /\ out' = [op |-> "panic", val |-> <<>>, arg |-> opname]

FromVec(value) ==
    /\ ~alive
    /\ \E checks \in OverflowChecks :
         IF checks /\ from_vec_overflows(value)
         THEN Panic("from_vec")
         ELSE /\ owned_unicode' = from_vec(value)
              /\ alive' = TRUE
              /\ out' = [op |-> "from_vec", val |-> value, arg |-> <<>>]

FromStr(t) ==
    /\ ~alive
    /\ \E checks \in OverflowChecks :
         IF checks /\ from_vec_overflows(encode_utf16(t))
         THEN Panic("from_str")
         ELSE /\ owned_unicode' = from_str(t)
              /\ alive' = TRUE
              /\ out' = [op |-> "from_str", val |-> t, arg |-> <<>>]

\* decode_utf16 that never pairs surrogates: each surrogate unit is an Err
RECURSIVE decode_utf16_unpaired(_)
decode_utf16_unpaired(us) ==
    IF us = <<>> THEN <<>>
    ELSE (IF Head(us) < 55296 \/ Head(us) > 57343 THEN <<Head(us)>> ELSE <<-1>>)
         \o decode_utf16_unpaired(Tail(us))

\* core::char::decode_utf16: one item per scalar value or per unpaired surrogate
\* (Err is written -1); a unit that follows an unpaired high surrogate is decoded again
RECURSIVE decode_utf16(_)
decode_utf16(us) ==
    IF us = <<>> THEN <<>>
    ELSE LET u == Head(us)
         IN IF u < 55296 \/ u > 57343 THEN <<u>> \o decode_utf16(Tail(us))
            ELSE IF u >= 56320 THEN <<-1>> \o decode_utf16(Tail(us))
            ELSE IF Len(us) = 1 THEN <<-1>>
            ELSE IF us[2] < 56320 \/ us[2] > 57343
                 THEN <<-1>> \o decode_utf16(Tail(us))
                 ELSE <<65536 + ((u - 55296) * 1024) + (us[2] - 56320)>>
                      \o decode_utf16(Tail(Tail(us)))

\* Display::fmt over the units the raw slice yields: Ok(ch) is written, Err(_) gives U+FFFD
fmt(utf16_slice) ==
    LET d == decode_utf16(utf16_slice)
    IN [i \in 1..Len(d) |-> IF d[i] = -1 THEN REPLACEMENT ELSE d[i]]

\* number of units of the slices taken in fmt, add and eq: Length / size_of::<u16>()
slice_len(s) == s.Length \div SizeOfU16

\* the descriptor's Buffer no longer is the Vec's storage and the slice is not empty
dangling(s) == s.Buffer # s.ptr /\ slice_len(s) > 0

\* what slice::from_raw_parts(Buffer, Length / 2) can yield. Through a dangling Buffer
\* the read is of freed storage: the units it still holds from before the move, or
\* whatever the allocator or a later owner wrote over it (a fill of one unit value);
\* the third outcome, a fault, is the Fault step
from_raw_parts(s) ==
    IF dangling(s)
    THEN {SubSeq(s.buffer, 1, slice_len(s))}
         \cup {[i \in 1..slice_len(s) |-> g] : g \in Units}
    ELSE {SubSeq(s.buffer, 1, slice_len(s))}

\* where a Vec's storage may be after growing by n units
storage_after(s, n) == IF n = 0 THEN {s.ptr} ELSE AllocIds

\* add that appends to the left operand's logical slice instead of its whole buffer
add_to_logical_slice(self, rhs_slice, p) ==
    compute_size([self EXCEPT
        !.buffer = SubSeq(self.buffer, 1, slice_len(self)) \o rhs_slice, !.ptr = p])

\* Add::add, given what the raw slice of rhs yielded and where the storage is afterwards
add(self, rhs_slice, p) ==
    compute_size([self EXCEPT !.buffer = self.buffer \o rhs_slice, !.ptr = p])

add_overflows(self, rhs_slice) ==
    compute_size_overflows([self EXCEPT !.buffer = self.buffer \o rhs_slice])

\* eq that compares the whole Vecs
eq_whole_buffers(self, other) == self.buffer = other.buffer

\* PartialEq::eq: the slices are taken from the Vecs, not through Buffer
\* (slices are equal when their lengths are and their elements are)
eq(self, other) ==
    /\ slice_len(self) = slice_len(other)
    /\ SubSeq(self.buffer, 1, slice_len(self)) = SubSeq(other.buffer, 1, slice_len(other))

\* a slice `..n` past the end of the Vec panics
eq_panics(self, other) ==
    \/ slice_len(self) > Len(self.buffer)
    \/ slice_len(other) > Len(other.buffer)

\* AsRef<UNICODE_STRING>: the descriptor as it is, nothing recomputed
as_ref(s) == <<s.Length, s.MaximumLength, s.Buffer>>

\* right operands: a container built from a short unit vector, as constructed or
\* after a pointer extraction has terminated it
RhsOperands ==
    LET built == {from_vec(v) : v \in SeqsUpTo(Units, MaxOtherLen)}
    IN built \cup {ensure_is_null_terminated(b, p) : b \in built, p \in AllocIds}

\* a read through a dangling pointer may fault: the program is gone
Fault ==
    /\ owned_unicode' = Unalive
    /\ alive' = FALSE
    /\ out' = [op |-> "fault", val |-> <<>>, arg |-> <<>>]

\* Into<PCWSTR> and Into<PWSTR> for &mut OwnedUnicodeString
Into(name) ==
    /\ alive
    /\ \E checks \in OverflowChecks :
         IF checks /\ ensure_overflows(owned_unicode)
         THEN Panic(name)
         ELSE \E p \in storage_after(owned_unicode,
                                     IF is_null_terminated(owned_unicode) THEN 0 ELSE 1) :
                /\ owned_unicode' = ensure_is_null_terminated(owned_unicode, p)
                /\ alive' = TRUE
                /\ out' = [op |-> name, val |-> p, arg |-> <<>>]

IntoPCWSTR == Into("into_pcwstr")

IntoPWSTR == Into("into_pwstr")

AsRef ==
    /\ alive
    /\ out' = [op |-> "as_ref", val |-> as_ref(owned_unicode), arg |-> <<>>]
    /\ UNCHANGED <<owned_unicode, alive>>

Display ==
    /\ alive
    /\ slice_len(owned_unicode) <= MaxLen
    /\ \/ \E utf16_slice \in from_raw_parts(owned_unicode) :
            /\ out' = [op |-> "fmt", val |-> fmt(utf16_slice), arg |-> <<>>]
            /\ UNCHANGED <<owned_unicode, alive>>
       \/ dangling(owned_unicode) /\ Fault

\* self + rhs; opname and arg record which operator was called and with what
AddWith(rhs, opname, arg) ==
    /\ alive
    /\ Len(owned_unicode.buffer) + slice_len(rhs) <= MaxLen
    /\ \/ \E rhs_slice \in from_raw_parts(rhs), checks \in OverflowChecks :
            IF checks /\ add_overflows(owned_unicode, rhs_slice)
            THEN Panic(opname)
            ELSE \E p \in storage_after(owned_unicode, Len(rhs_slice)) :
                   /\ owned_unicode' = add(owned_unicode, rhs_slice, p)
                   /\ alive' = TRUE
                   /\ out' = [op |-> opname, val |-> rhs_slice, arg |-> arg]
       \/ dangling(rhs) /\ Fault

Add(rhs) == AddWith(rhs, "add", rhs)

\* Add<&str>: the text is converted, then the two containers are added
AddStr(t) == AddWith(from_str(t), "add_str", t)

Eq(other) ==
    /\ alive
    /\ IF eq_panics(owned_unicode, other)
       THEN Panic("eq")
       ELSE /\ out' = [op |-> "eq", val |-> eq(owned_unicode, other), arg |-> <<>>]
            /\ UNCHANGED <<owned_unicode, alive>>

\* the test module's direct mutation: buffer.push(u), then compute_size()
PushComputeSize(u) ==
    /\ alive
    /\ Len(owned_unicode.buffer) + 1 <= MaxLen
    /\ LET pushed == [owned_unicode EXCEPT !.buffer = Append(owned_unicode.buffer, u)]
       IN \E checks \in OverflowChecks :
            IF checks /\ compute_size_overflows(pushed)
            THEN Panic("push_compute_size")
            ELSE \E p \in storage_after(owned_unicode, 1) :
                   /\ owned_unicode' = compute_size([pushed EXCEPT !.ptr = p])
                   /\ alive' = TRUE
                   /\ out' = [op |-> "push_compute_size", val |-> u, arg |-> <<>>]

\* the owner goes out of scope: the Vec releases its storage
Drop ==
    /\ alive
    /\ owned_unicode' = Unalive
    /\ alive' = FALSE
    /\ out' = [op |-> "drop", val |-> <<>>, arg |-> <<>>]

Next ==
    \/ \E value \in SeqsUpTo(Units, MaxLen) : FromVec(value)
    \/ \E value \in BigVecs : FromVec(value)
    \/ \E t \in Texts : FromStr(t)
    \/ IntoPCWSTR
    \/ IntoPWSTR
    \/ AsRef
    \/ Display
    \/ \E rhs \in RhsOperands : Add(rhs)
    \/ \E t \in Texts : AddStr(t)
    \/ \E other \in RhsOperands : Eq(other)
    \/ \E u \in Units : PushComputeSize(u)
    \/ Drop

Spec == Init /\ [][Next]_vars

(***************************** properties **********************************)
\* operations that end with a call of compute_size
RecomputeOps == {"from_vec", "from_str", "add", "add_str", "push_compute_size"}

IntoOps == {"into_pcwstr", "into_pwstr"}

AddOps == {"add", "add_str"}

\* the right operand of the addition that out records
RhsOf(o) == IF o.op = "add_str" THEN from_str(o.arg) ELSE o.arg

\* length of the maximal run of zero units at the end of buf
ZeroRun(buf) ==
    CHOOSE k \in 0..Len(buf) :
        /\ \A i \in (Len(buf) - k + 1)..Len(buf) : buf[i] = 0
        /\ k = Len(buf) \/ buf[Len(buf) - k] # 0

\* buf without its trailing zero units
Stripped(buf) == SubSeq(buf, 1, Len(buf) - ZeroRun(buf))

\* C1: after any sequence of operations the descriptor's Buffer field refers to the
\* current storage of the owned buffer (it is refreshed when an append reallocates).
C1_BufferIsCurrentStorage ==
    alive => owned_unicode.Buffer = owned_unicode.ptr

\* C2: after any recompute, Length <= MaximumLength and MaximumLength is twice the
\* number of code units of the buffer.
C2_InvariantClosure ==
    (alive /\ out.op \in RecomputeOps) =>
        /\ owned_unicode.Length <= owned_unicode.MaximumLength
        /\ owned_unicode.MaximumLength = Len(owned_unicode.buffer) * SizeOfU16

\* C3: ensure-terminated changes nothing when the buffer ends in a zero unit; else it
\* appends exactly one zero unit, raises MaximumLength by exactly 2 and leaves Length
\* as it was; afterwards the buffer ends in a zero unit.
C3_EnsureTerminatedEffect ==
    [][(alive /\ out'.op \in IntoOps) =>
         /\ is_null_terminated(owned_unicode) =>
              /\ owned_unicode'.buffer = owned_unicode.buffer
              /\ owned_unicode'.Length = owned_unicode.Length
              /\ owned_unicode'.MaximumLength = owned_unicode.MaximumLength
         /\ ~is_null_terminated(owned_unicode) =>
              /\ owned_unicode'.buffer = Append(owned_unicode.buffer, 0)
              /\ owned_unicode'.MaximumLength = owned_unicode.MaximumLength + 2
              /\ owned_unicode'.Length = owned_unicode.Length
         /\ is_null_terminated(owned_unicode')]_vars

\* C4: a + b is a's whole buffer followed by the first b.Length/2 units of b's current
\* buffer, with both lengths recomputed from it; a + text is a + from_text(text).
C4_AddAppendsLogicalSlice ==
    [][(alive /\ out'.op \in AddOps) =>
         LET rhs == RhsOf(out')
             buf == owned_unicode.buffer \o SubSeq(rhs.buffer, 1, slice_len(rhs))
         IN /\ owned_unicode'.buffer = buf
            /\ owned_unicode'.MaximumLength = Wrap16(Len(buf) * 2)
            /\ owned_unicode'.Length = Wrap16(2 * (Len(buf) - ZeroRun(buf)))]_vars

\* C5: Display outputs the decoding of exactly the first Length/2 units of the
\* container's current buffer, one U+FFFD per unpaired surrogate.
C5_DisplayDecodesLogicalSlice ==
    (alive /\ out.op = "fmt") =>
        out.val = fmt(SubSeq(owned_unicode.buffer, 1, slice_len(owned_unicode)))

\* C6: equality holds exactly when the first Length/2 units of the two buffers are the
\* same sequence; it is reflexive, symmetric and transitive; and two containers whose
\* buffers differ only in their trailing zero units are equal.
C6_EqualityOnLogicalContent ==
    (alive /\ out.op = "eq") =>
        LET a == owned_unicode
        IN /\ eq(a, a)
           /\ \A b \in RhsOperands :
                /\ ~eq_panics(a, b)
                /\ eq(a, b) <=>
                     /\ a.Length = b.Length
                     /\ \A i \in 1..slice_len(b) : a.buffer[i] = b.buffer[i]
                /\ eq(a, b) <=> eq(b, a)
                /\ Stripped(a.buffer) = Stripped(b.buffer) => eq(a, b)
                /\ \A c \in RhsOperands :
                     /\ (eq(a, b) /\ eq(b, c)) => eq(a, c)
                     /\ (eq(b, a) /\ eq(a, c)) => eq(b, c)

\* C6 witness: an equality that held between buffers of different physical length.
C6_Witness ==
    /\ alive
    /\ out.op = "eq"
    /\ out.val = TRUE
    /\ owned_unicode.buffer = <<65, 0, 0>>

\* C7 as claimed: for any text t, zero scalar values included, display(from_text(t)) = t.
C7_RoundTripAnyText ==
    [][(out.op = "from_str" /\ out'.op = "fmt") => out'.val = out.val]_vars

\* C7 amended: for a text t that does not end with U+0000 and whose encoding has at
\* most 32767 units, display(from_text(t)) = t.
C7_RoundTrip ==
    [][( /\ out.op = "from_str"
         /\ out'.op = "fmt"
         /\ out.val = <<>> \/ out.val[Len(out.val)] # 0
         /\ Len(encode_utf16(out.val)) <= TopLen ) => out'.val = out.val]_vars

\* C7 witness: a text with an embedded U+0000 and a surrogate pair was displayed.
C7_Witness ==
    /\ alive
    /\ out.op = "fmt"
    /\ owned_unicode = from_str(<<0, 128512>>)
    /\ out.val = <<0, 128512>>

\* C8: past the 16-bit byte range recompute does not abort, the two lengths take the
\* wrapped values; nor does ensure-terminated's increment abort at the top of the range.
C8_WrapsWithoutAbort ==
    /\ out.op # "panic"
    /\ (alive /\ out.op \in RecomputeOps) =>
         /\ owned_unicode.MaximumLength = Wrap16(Len(owned_unicode.buffer) * 2)
         /\ owned_unicode.Length =
              Wrap16(2 * (Len(owned_unicode.buffer) - ZeroRun(owned_unicode.buffer)))

\* C9: for a buffer of at most 32767 units, Length = MaximumLength - 2k with k the
\* length of the trailing run of zero units, after a recompute and after
\* ensure-terminated alike.
C9_LengthExcludesTrailingZeroRun ==
    (alive /\ Len(owned_unicode.buffer) <= TopLen) =>
        owned_unicode.Length =
            owned_unicode.MaximumLength - 2 * ZeroRun(owned_unicode.buffer)

\* C9 witness: an embedded zero unit is counted, the trailing one (just pushed) is not.
C9_Witness ==
    /\ alive
    /\ out.op \in IntoOps
    /\ owned_unicode.buffer = <<0, 65, 0>>
    /\ owned_unicode.Length = 4
    /\ owned_unicode.MaximumLength = 6

\* C10 as claimed: when the left operand holds trailing zero units and the right one
\* has logical content, the zeros stay embedded and the result's Length is shorter
\* than that of the textual concatenation (left content followed by right content).
C10_EmbeddedZerosShorter ==
    [][(alive /\ out'.op \in AddOps /\ is_null_terminated(owned_unicode)
          /\ slice_len(RhsOf(out')) > 0) =>
         /\ owned_unicode'.buffer = owned_unicode.buffer \o out'.val
         /\ owned_unicode'.Length < owned_unicode.Length + RhsOf(out').Length]_vars

\* C10 amended: in that case the zeros stay embedded and, whenever the last appended
\* unit is not zero and the result has at most 32767 units, the result's Length is
\* longer than that of the textual concatenation, by 2 for each zero unit of the run.
C10_EmbeddedZerosLonger ==
    [][(alive /\ out'.op \in AddOps /\ is_null_terminated(owned_unicode)
          /\ slice_len(RhsOf(out')) > 0) =>
         /\ owned_unicode'.buffer = owned_unicode.buffer \o out'.val
         /\ Len(out'.val) = slice_len(RhsOf(out'))
         /\ (out'.val[Len(out'.val)] # 0 /\ Len(owned_unicode'.buffer) <= TopLen) =>
              owned_unicode'.Length =
                  owned_unicode.Length + RhsOf(out').Length
                    + 2 * ZeroRun(owned_unicode.buffer)]_vars

\* C10 witness: "A" terminated, then "A" added: the zero unit is inside the result.
C10_Witness ==
    /\ alive
    /\ out.op = "add"
    /\ owned_unicode.buffer = <<65, 0, 65>>
    /\ owned_unicode.Length = 6
====
